---- MODULE Spec2Model ----
(***************************************************************************)
(* The Interactive Execution Session of the BlackMoon compiler client      *)
(* (src/static/script.js): the run/stop controller, the WebSocket channel  *)
(* manager, the terminal line discipline and the output frame dispatcher.  *)
(*                                                                         *)
(* JavaScript strings are modelled as sequences of UTF-16 code units, so   *)
(* that startsWith, includes, trim, slice and the newline normalisation    *)
(* are computed as the code computes them.                                 *)
(*                                                                         *)
(* The browser is the environment: a WebSocket has the readyState of the   *)
(* WHATWG WebSockets standard (CONNECTING, OPEN, CLOSING, CLOSED); the     *)
(* start of a closing handshake sets CLOSING in a task of its own, and the *)
(* closing of the connection is one task that sets CLOSED, fires error     *)
(* when the connection failed, and fires close.  Handlers run to           *)
(* completion; runCode is async but never awaits in script.js.  The        *)
(* terminal surface (xterm) is taken to be present, since the keystroke    *)
(* handler is only registered when it is (script.js:181-202).              *)
(*                                                                         *)
(* this.ws holds a WebSocket object or null.  The handlers are closures    *)
(* over the controller, not over the socket they were set on, so sockets   *)
(* that this.ws no longer refers to (orphans) still deliver their events   *)
(* to the same handlers.  Such sockets differ only in their readyState, so *)
(* they are kept as a bag.                                                 *)
(***************************************************************************)
EXTENDS Naturals, Integers, Sequences, FiniteSets, TLC

(***************************************************************************)
(* Bounds of the model.                                                    *)
(***************************************************************************)
MaxSockets == 2      \* WebSocket objects alive at once
MaxBuf == 2          \* longest terminalInputBuffer explored
MaxUnfinished == 2   \* runs started on one socket the backend has not ended
MaxWaiters == 2      \* part_000: run() calls suspended at once

(***************************************************************************)
(* Characters (UTF-16 code units) the code names.                          *)
(***************************************************************************)
CR == 13
LF == 10
ETX == 3
DEL == 127
BS == 8
ESC == 27
SPACE == 32

\* String literals of script.js, as code units.
INPUT_PREFIX == <<73, 78, 80, 85, 84, 32>>                  \* 'INPUT '
STOP_CMD == <<83, 84, 79, 80>>                              \* 'STOP'
RUN_PREFIX == <<82, 85, 78, 32>>                            \* 'RUN '
CTRL_C_ECHO == <<94, 67, 13, 10>>                           \* '^C\r\n'
CRLF == <<13, 10>>                                          \* '\r\n'
BS_ECHO == <<8, 32, 8>>                                     \* '\b \b'
WS_READY ==
  <<66, 76, 65, 67, 75, 77, 79, 79, 78, 95, 87, 83, 95, 82, 69, 65, 68, 89>>
  \* 'BLACKMOON_WS_READY'
EXEC_COMPLETE ==
  <<60, 60, 69, 88, 69, 67, 85, 84, 73, 79, 78, 95, 67, 79, 77, 80, 76, 69,
    84, 69, 62, 62>>
  \* '<<EXECUTION_COMPLETE>>'
PH_COMPLETED ==
  <<69, 120, 101, 99, 117, 116, 105, 111, 110, 32, 99, 111, 109, 112, 108,
    101, 116, 101, 100>>
  \* 'Execution completed'
PH_EXITED ==
  <<80, 114, 111, 99, 101, 115, 115, 32, 101, 120, 105, 116, 101, 100, 32,
    119, 105, 116, 104, 32, 99, 111, 100, 101>>
  \* 'Process exited with code'
PH_TIMEOUT ==
  <<69, 120, 101, 99, 117, 116, 105, 111, 110, 32, 116, 105, 109, 101, 111,
    117, 116>>
  \* 'Execution timeout'
PH_STOPPED ==
  <<69, 120, 101, 99, 117, 116, 105, 111, 110, 32, 115, 116, 111, 112, 112,
    101, 100>>
  \* 'Execution stopped'
WS_CLOSED_HEAD ==
  <<55357, 56628, 32, 87, 83, 32, 99, 108, 111, 115, 101, 100, 32, 40, 99,
    111, 100, 101, 61>>
  \* '(red circle) WS closed (code='
REASON_HEAD == <<44, 32, 114, 101, 97, 115, 111, 110, 61>>  \* ', reason='
WS_CLOSED_TAIL == <<41, 10>>                                \* ')\n'
CONN_LOST ==
  <<55357, 56628, 32, 67, 111, 110, 110, 101, 99, 116, 105, 111, 110, 32,
    108, 111, 115, 116, 46, 32, 80, 108, 101, 97, 115, 101, 32, 114, 117,
    110, 32, 97, 103, 97, 105, 110, 46, 10>>
  \* '(red circle) Connection lost. Please run again.\n'
WS_ERROR ==
  <<55357, 56628, 32, 87, 101, 98, 83, 111, 99, 107, 101, 116, 32, 101, 114,
    114, 111, 114, 46, 32, 80, 108, 101, 97, 115, 101, 32, 99, 104, 101, 99,
    107, 32, 99, 111, 110, 115, 111, 108, 101, 46, 10>>
  \* '(red circle) WebSocket error. Please check console.\n'
STOPPING ==
  <<55357, 57041, 32, 83, 116, 111, 112, 112, 105, 110, 103, 46, 46, 46, 10>>
  \* '(stop sign) Stopping...\n'
SGR_RED == <<27, 91, 51, 49, 109>>                          \* '\u001b[31m'
SGR_RESET == <<27, 91, 48, 109>>                            \* '\u001b[0m'

(***************************************************************************)
(* String.prototype operations on code-unit sequences.                     *)
(***************************************************************************)
\* White space and line terminators of ECMAScript, as trim() strips them.
IsWhiteSpace(ch) ==
  ch \in {9, 10, 11, 12, 13, 32, 160, 5760, 8232, 8233, 8239, 8287, 12288,
          65279} \cup (8192 .. 8202)

RECURSIVE trimStart(_)
trimStart(str) ==
  IF str # <<>> /\ IsWhiteSpace(Head(str)) THEN trimStart(Tail(str)) ELSE str

RECURSIVE trimEnd(_)
trimEnd(str) ==
  IF str # <<>> /\ IsWhiteSpace(str[Len(str)])
  THEN trimEnd(SubSeq(str, 1, Len(str) - 1))
  ELSE str

trim(str) == trimEnd(trimStart(str))

startsWith(str, prefix) ==
  /\ Len(prefix) <= Len(str)
  /\ SubSeq(str, 1, Len(prefix)) = prefix

includes(str, part) ==
  \E i \in 1 .. (Len(str) - Len(part) + 1) :
    SubSeq(str, i, i + Len(part) - 1) = part

\* str.slice(0, -1)
sliceDropLast(str) ==
  IF Len(str) = 0 THEN str ELSE SubSeq(str, 1, Len(str) - 1)

\* str.substring(n)
substring(str, n) ==
  IF n >= Len(str) THEN <<>> ELSE SubSeq(str, n + 1, Len(str))

\* message.replace(/\r?\n/g, '\r\n')
RECURSIVE replaceNewlines(_)
replaceNewlines(str) ==
  IF str = <<>> THEN <<>>
  ELSE IF Head(str) = LF THEN CRLF \o replaceNewlines(Tail(str))
  ELSE IF Head(str) = CR /\ Len(str) >= 2 /\ str[2] = LF
       THEN CRLF \o replaceNewlines(Tail(Tail(str)))
  ELSE <<Head(str)>> \o replaceNewlines(Tail(str))

\* output.replace(/\n/g, '\r\n') of part_000: a CR before the LF is kept.
RECURSIVE replaceNewlines000(_)
replaceNewlines000(str) ==
  IF str = <<>> THEN <<>>
  ELSE IF Head(str) = LF THEN CRLF \o replaceNewlines000(Tail(str))
  ELSE <<Head(str)>> \o replaceNewlines000(Tail(str))

\* Number-to-string of a non-negative integer, as a template literal does it.
RECURSIVE decimal(_)
decimal(n) ==
  IF n < 10 THEN <<48 + n>> ELSE decimal(n \div 10) \o <<48 + (n % 10)>>

(***************************************************************************)
(* WebSocket objects.  runs is not a field of the object: it lists, oldest *)
(* first, the runs started on the socket that the backend has not yet      *)
(* ended, each "live" or "stopped" (the session sent STOP after it), and   *)
(* serves only to tell which run an inbound frame belongs to.              *)
(***************************************************************************)
CONNECTING == "CONNECTING"
OPEN == "OPEN"
CLOSING == "CLOSING"
CLOSED == "CLOSED"
NULL == [readyState |-> "null", runs |-> <<>>]
LiveStates == {CONNECTING, OPEN, CLOSING}
\* Orphans are told apart by their readyState alone.
OrphanKinds == [readyState : LiveStates]
NoOrphans == [o \in OrphanKinds |-> 0]

RECURSIVE sumOver(_, _)
sumOver(f, dom) ==
  IF dom = {} THEN 0
  ELSE LET x == CHOOSE y \in dom : TRUE IN f[x] + sumOver(f, dom \ {x})

orphanKind(obj) == [readyState |-> obj.readyState]

(***************************************************************************)
(* State.  The fields of the BlackMoonCompiler object that the session     *)
(* uses, the editor and language selector it reads, the sockets the        *)
(* browser holds, and what the last step sent, wrote and notified.         *)
(***************************************************************************)
VARIABLES
  ws,                   \* this.ws: NULL or a WebSocket object
  orphans,              \* live sockets this.ws does not refer to
  wsConnecting,         \* this.wsConnecting
  isRunning,            \* this.isRunning
  shouldAutoRunOnce,    \* this.shouldAutoRunOnce
  terminalInputBuffer,  \* this.terminalInputBuffer
  editorValue,          \* this.editor.getValue()
  languageValue,        \* document.getElementById('languageSelect').value
  wsSent,               \* the ws.send calls of the last step, in order
  xtermOut,             \* what the last step left written on the terminal
  xtermResets,          \* the xterm.reset() calls of the last step
  notifications,        \* the showNotification calls of the last step
  last,                 \* the last step: operation, input and prior state
  pendingRun,           \* the request of the run() call that queued a run
  waiters               \* part_000: the run() calls suspended in their await

vars ==
  <<ws, orphans, wsConnecting, isRunning, shouldAutoRunOnce,
    terminalInputBuffer, editorValue, languageValue, wsSent, xtermOut,
    xtermResets, notifications, last, pendingRun, waiters>>

\* The object as a handler sees it when it starts: nothing sent or written yet.
Cur ==
  [ ws |-> ws, orphans |-> orphans, wsConnecting |-> wsConnecting,
    isRunning |-> isRunning, shouldAutoRunOnce |-> shouldAutoRunOnce,
    terminalInputBuffer |-> terminalInputBuffer,
    code |-> editorValue, language |-> languageValue,
    wsSent |-> <<>>, xtermOut |-> <<>>, xtermResets |-> 0,
    notifications |-> 0, full |-> FALSE, pendingRun |-> pendingRun,
    waiters |-> waiters ]

\* No request is queued.
NoRequest == [code |-> <<>>, language |-> <<>>]

\* The request of a run() call that finds no open channel is recorded when no
\* request is on record; the code itself keeps only the shouldAutoRunOnce flag.
recordRequest(s) ==
  IF ~s.shouldAutoRunOnce \/ s.pendingRun = NoRequest
  THEN [s EXCEPT !.pendingRun = [code |-> s.code, language |-> s.language]]
  ELSE s

socketCount(s) ==
  (IF s.ws = NULL THEN 0 ELSE 1) + sumOver(s.orphans, OrphanKinds)

\* this.ws = obj: the object this.ws referred to lives on if it is not closed.
setWs(s, obj) ==
  IF s.ws # NULL /\ s.ws.readyState # CLOSED
  THEN [s EXCEPT !.ws = obj, !.orphans[orphanKind(s.ws)] = @ + 1]
  ELSE [s EXCEPT !.ws = obj]

\* this.ws && this.ws.readyState === WebSocket.OPEN
wsIsOpen(s) == s.ws # NULL /\ s.ws.readyState = OPEN

isRunCommand(data) == startsWith(data, RUN_PREFIX)

\* this.ws.send(data)
wsSend(s, data) ==
  [s EXCEPT !.wsSent = Append(@, [data |-> data,
                                  readyState |-> s.ws.readyState]),
            !.ws.runs = IF isRunCommand(data) THEN Append(@, "live")
                        ELSE IF data = STOP_CMD
                          THEN [i \in 1 .. Len(@) |-> "stopped"]
                        ELSE @]

\* this.xterm.write(data)
xtermWrite(s, data) == [s EXCEPT !.xtermOut = @ \o data]

showNotification(s) == [s EXCEPT !.notifications = @ + 1]

appendToTerminal(s, text, className) ==
  LET normalized == replaceNewlines(text)
  IN IF className = "error"
     THEN xtermWrite(s, SGR_RED \o normalized \o SGR_RESET)
     ELSE xtermWrite(s, normalized)

clearTerminal(s) ==
  [s EXCEPT !.xtermResets = @ + 1, !.xtermOut = <<>>,
            !.terminalInputBuffer = <<>>]

(***************************************************************************)
(* Terminal line discipline: handleTerminalData.                           *)
(***************************************************************************)
\* A flush that forgets to clear the buffer.
flushLine_keepsBuffer(s) ==
  LET payload == s.terminalInputBuffer
      s1 == IF wsIsOpen(s) THEN wsSend(s, INPUT_PREFIX \o payload) ELSE s
  IN xtermWrite(s1, CRLF)

\* case '\r': case '\n':
flushLine(s) ==
  LET payload == s.terminalInputBuffer
      s1 == IF wsIsOpen(s) THEN wsSend(s, INPUT_PREFIX \o payload) ELSE s
  IN xtermWrite([s1 EXCEPT !.terminalInputBuffer = <<>>], CRLF)

\* An interrupt that waits for the backend before it reports Idle.
interrupt_keepsRunning(s) ==
  LET s1 == xtermWrite(s, CTRL_C_ECHO)
      s2 == [s1 EXCEPT !.terminalInputBuffer = <<>>]
  IN IF wsIsOpen(s2) THEN wsSend(s2, STOP_CMD) ELSE s2

\* case '\u0003':
interrupt(s) ==
  LET s1 == xtermWrite(s, CTRL_C_ECHO)
      s2 == [s1 EXCEPT !.terminalInputBuffer = <<>>]
      s3 == IF wsIsOpen(s2) THEN wsSend(s2, STOP_CMD) ELSE s2
  IN [s3 EXCEPT !.isRunning = FALSE]

\* An erase that echoes the destructive backspace on an empty buffer too.
eraseChar_alwaysEchoes(s) ==
  xtermWrite([s EXCEPT !.terminalInputBuffer = sliceDropLast(@)], BS_ECHO)

\* case '\u007f': case '\b':
eraseChar(s) ==
  IF Len(s.terminalInputBuffer) > 0
  THEN xtermWrite([s EXCEPT !.terminalInputBuffer = sliceDropLast(@)],
                  BS_ECHO)
  ELSE s

\* A default case without the test for control characters.
typeChar_keepsControl(s, char) ==
  xtermWrite([s EXCEPT !.terminalInputBuffer = Append(@, char)], <<char>>)

\* default:
typeChar(s, char) ==
  IF char >= SPACE
  THEN xtermWrite([s EXCEPT !.terminalInputBuffer = Append(@, char)],
                  <<char>>)
  ELSE s

\* A dispatch in which only the carriage return ends a line, so that the
\* line feed of a CR LF pair is not a second, empty line.
handleChar_onlyCRFlushes(s, char) ==
  IF char = CR THEN flushLine(s)
  ELSE IF char = ETX THEN interrupt(s)
  ELSE IF char = DEL \/ char = BS THEN eraseChar(s)
  ELSE typeChar(s, char)

handleChar(s, char) ==
  IF char = CR \/ char = LF THEN flushLine(s)
  ELSE IF char = ETX THEN interrupt(s)
  ELSE IF char = DEL \/ char = BS THEN eraseChar(s)
  ELSE typeChar(s, char)

RECURSIVE handleChars(_, _)
handleChars(s, data) ==
  IF data = <<>> THEN s
  ELSE handleChars(handleChar(s, Head(data)), Tail(data))

handleTerminalData(s, data) ==
  IF data # <<>> /\ startsWith(data, <<ESC>>) THEN s
  ELSE handleChars(s, data)

(***************************************************************************)
(* Session controller and channel manager.                                 *)
(***************************************************************************)
\* this.ws = new WebSocket(...)
newWebSocket(s) ==
  LET s1 == setWs(s, [readyState |-> CONNECTING, runs |-> <<>>])
  IN IF socketCount(s1) > MaxSockets THEN [s1 EXCEPT !.full = TRUE] ELSE s1

connectWebSocket(s) ==
  IF s.ws # NULL /\ s.ws.readyState \in {OPEN, CONNECTING} THEN s
  ELSE IF s.wsConnecting THEN s
  ELSE newWebSocket([s EXCEPT !.wsConnecting = TRUE])

\* A run that rejects only the empty string, not white space.
runCode_noTrim(s) ==
  IF s.code = <<>> THEN showNotification(s)
  ELSE IF s.ws = NULL \/ s.ws.readyState # OPEN
    THEN connectWebSocket([recordRequest(s) EXCEPT !.shouldAutoRunOnce = TRUE])
  ELSE LET s1 == clearTerminal([s EXCEPT !.isRunning = TRUE])
       IN wsSend(s1, RUN_PREFIX \o s.language \o <<SPACE>> \o s.code)

\* A run that sends the trimmed code.
runCode_sendsTrimmedCode(s) ==
  IF trim(s.code) = <<>> THEN showNotification(s)
  ELSE IF s.ws = NULL \/ s.ws.readyState # OPEN
    THEN connectWebSocket([recordRequest(s) EXCEPT !.shouldAutoRunOnce = TRUE])
  ELSE LET s1 == clearTerminal([s EXCEPT !.isRunning = TRUE])
       IN wsSend(s1, RUN_PREFIX \o s.language \o <<SPACE>> \o trim(s.code))

runCode(s) ==
  IF trim(s.code) = <<>> THEN showNotification(s)
  ELSE IF s.ws = NULL \/ s.ws.readyState # OPEN
    THEN connectWebSocket([recordRequest(s) EXCEPT !.shouldAutoRunOnce = TRUE])
  ELSE LET s1 == clearTerminal([s EXCEPT !.isRunning = TRUE])
       IN wsSend(s1, RUN_PREFIX \o s.language \o <<SPACE>> \o s.code)

onopen(s) ==
  LET s1 == [s EXCEPT !.wsConnecting = FALSE]
  IN IF s1.shouldAutoRunOnce
     THEN runCode([s1 EXCEPT !.shouldAutoRunOnce = FALSE])
     ELSE s1

onclose(s, evCode, evReason) ==
  LET text == WS_CLOSED_HEAD \o decimal(evCode)
                \o (IF evReason # <<>> THEN REASON_HEAD \o evReason ELSE <<>>)
                \o WS_CLOSED_TAIL
      s1 == appendToTerminal(s, text, "error")
      s2 == [setWs(s1, NULL) EXCEPT !.wsConnecting = FALSE,
                                    !.terminalInputBuffer = <<>>,
                                    !.pendingRun = NoRequest]
  IN IF s2.isRunning
     THEN [appendToTerminal(s2, CONN_LOST, "error") EXCEPT !.isRunning = FALSE]
     ELSE s2

onerror(s) ==
  LET s1 == appendToTerminal(s, WS_ERROR, "error")
  IN [s1 EXCEPT !.wsConnecting = FALSE, !.isRunning = FALSE,
                !.terminalInputBuffer = <<>>]

\* The completion phrases of the fallback detection.
hasCompletionPhrase(msg) ==
  \/ includes(msg, PH_COMPLETED)
  \/ includes(msg, PH_EXITED)
  \/ includes(msg, PH_TIMEOUT)
  \/ includes(msg, PH_STOPPED)

\* A dispatcher without the sentinel branch: the sentinel is rendered.
onmessage_rendersSentinel(s, data) ==
  IF trim(data) = WS_READY THEN s
  ELSE LET s1 == IF data = EXEC_COMPLETE \/ hasCompletionPhrase(data)
                 THEN [s EXCEPT !.isRunning = FALSE]
                 ELSE s
       IN appendToTerminal(s1, data, "")

\* A dispatcher without the fallback detection of completion phrases.
onmessage_noFallback(s, data) ==
  IF trim(data) = WS_READY THEN s
  ELSE IF data = EXEC_COMPLETE THEN [s EXCEPT !.isRunning = FALSE]
  ELSE appendToTerminal(s, data, "")

\* A dispatcher for which every rendered frame ends the run.
onmessage_anyFrameEndsRun(s, data) ==
  IF trim(data) = WS_READY THEN s
  ELSE IF data = EXEC_COMPLETE THEN [s EXCEPT !.isRunning = FALSE]
  ELSE appendToTerminal([s EXCEPT !.isRunning = FALSE], data, "")

\* A dispatcher that compares the banner without trimming the frame.
onmessage_bannerNotTrimmed(s, data) ==
  IF data = WS_READY THEN s
  ELSE IF data = EXEC_COMPLETE THEN [s EXCEPT !.isRunning = FALSE]
  ELSE LET s1 == IF hasCompletionPhrase(data)
                 THEN [s EXCEPT !.isRunning = FALSE]
                 ELSE s
       IN appendToTerminal(s1, data, "")

onmessage(s, data) ==
  IF trim(data) = WS_READY THEN s
  ELSE IF data = EXEC_COMPLETE THEN [s EXCEPT !.isRunning = FALSE]
  ELSE LET s1 == IF hasCompletionPhrase(data)
                 THEN [s EXCEPT !.isRunning = FALSE]
                 ELSE s
       IN appendToTerminal(s1, data, "")

\* A stop that waits for the channel before it reports Idle.
stopExecution_needsOpenChannel(s) ==
  IF wsIsOpen(s)
  THEN [appendToTerminal(wsSend(s, STOP_CMD), STOPPING, "")
          EXCEPT !.isRunning = FALSE]
  ELSE s

\* A stop that sends without looking at the socket.
stopExecution_sendsUnguarded(s) ==
  [appendToTerminal(wsSend(s, STOP_CMD), STOPPING, "")
     EXCEPT !.isRunning = FALSE]

stopExecution(s) ==
  LET s1 == IF wsIsOpen(s)
            THEN appendToTerminal(wsSend(s, STOP_CMD), STOPPING, "")
            ELSE s
  IN [s1 EXCEPT !.isRunning = FALSE]

\* The click handler of the run button.
runButtonClick(s) == IF s.isRunning THEN stopExecution(s) ELSE runCode(s)


(***************************************************************************)
(* Inputs the environment draws from.                                      *)
(***************************************************************************)
LANG_PYTHON == <<112, 121, 116, 104, 111, 110>>   \* 'python'
LANG_C == <<99>>                                  \* 'c'

CODE_EMPTY == <<>>                                \* ''
CODE_BLANK == <<32, 10>>                          \* ' \n'
CODE_X == <<120>>                                 \* 'x'
CODE_PADDED == <<32, 97, 10>>                     \* ' a\n'

FRAME_OUTPUT_HI == <<79, 85, 84, 80, 85, 84, 32, 104, 105, 10>>
  \* 'OUTPUT hi\n'
FRAME_ERROR == <<69, 82, 82, 79, 82, 32, 98, 111, 111, 109>>
  \* 'ERROR boom'
FRAME_EXITED ==
  <<80, 114, 111, 99, 101, 115, 115, 32, 101, 120, 105, 116, 101, 100, 32,
    119, 105, 116, 104, 32, 99, 111, 100, 101, 32, 48, 10>>
  \* 'Process exited with code 0\n'
FRAME_PLAIN == <<111, 107, 13, 10>>               \* 'ok\r\n'
FRAME_READY_NL == WS_READY \o <<10>>              \* 'BLACKMOON_WS_READY\n'
FRAME_READY_PADDED == <<32>> \o WS_READY \o <<13, 10>>
  \* ' BLACKMOON_WS_READY\r\n'
FRAME_COMPLETED == <<62, 32>> \o PH_COMPLETED     \* '> Execution completed'
FRAME_TIMEOUT == PH_TIMEOUT \o <<33, 10>>         \* 'Execution timeout!\n'
FRAME_STOPPED == PH_STOPPED                       \* 'Execution stopped'
FRAME_TWO_LINES == <<97, 10, 98>>                 \* 'a\nb'
FRAME_EMPTY == <<>>                               \* ''
FRAME_ERROR_TIMEOUT == <<69, 82, 82, 79, 82, 32>> \o PH_TIMEOUT
  \* 'ERROR Execution timeout'

\* The structured prefixes of the wire contract.
OUTPUT_PREFIX == <<79, 85, 84, 80, 85, 84, 32>>    \* 'OUTPUT '
ERROR_PREFIX == <<69, 82, 82, 79, 82, 32>>         \* 'ERROR '

\* Close events: (code, reason).
CLOSE_NORMAL == 1000
CLOSE_ABNORMAL == 1006
REASON_GONE == <<103, 111, 110, 101>>             \* 'gone'
CloseEvents == {<<CLOSE_NORMAL, REASON_GONE>>, <<CLOSE_ABNORMAL, <<>> >>}

KEY_A == 97
TAB == 9

(***************************************************************************)
(* The wire contract's view of a frame (spec section 6): the frames with   *)
(* which the backend ends a run.  Used only to attribute frames to runs.   *)
(***************************************************************************)
endsRunOnWire(frame) ==
  \/ frame = EXEC_COMPLETE
  \/ startsWith(frame, <<69, 82, 82, 79, 82, 32>>)
  \/ hasCompletionPhrase(frame)

(***************************************************************************)
(* Init: the object after its constructor (script.js:3-33), no socket.     *)
(***************************************************************************)
NoStep ==
  [ op |-> "init", target |-> "none", data |-> <<>>, late |-> FALSE,
    pre |-> [ ws |-> NULL, wsConnecting |-> FALSE, isRunning |-> FALSE,
              shouldAutoRunOnce |-> FALSE, terminalInputBuffer |-> <<>> ] ]

Init ==
  /\ ws = NULL
  /\ orphans = NoOrphans
  /\ wsConnecting = FALSE
  /\ isRunning = FALSE
  /\ shouldAutoRunOnce = FALSE
  /\ terminalInputBuffer = <<>>
  /\ editorValue = CODE_EMPTY
  /\ languageValue = LANG_PYTHON
  /\ wsSent = <<>>
  /\ xtermOut = <<>>
  /\ xtermResets = 0
  /\ notifications = 0
  /\ last = NoStep
  /\ pendingRun = NoRequest
  /\ waiters = <<>>

\* What a step records of the state it started from.
Pre ==
  [ ws |-> ws, wsConnecting |-> wsConnecting, isRunning |-> isRunning,
    shouldAutoRunOnce |-> shouldAutoRunOnce,
    terminalInputBuffer |-> terminalInputBuffer ]

\* The step taken: the handler's result t becomes the state.
Commit(t, op, target, data, late) ==
  /\ ~t.full
  /\ Len(t.terminalInputBuffer) <= MaxBuf
  /\ Len(t.ws.runs) <= MaxUnfinished
  /\ Len(t.waiters) <= MaxWaiters
  /\ ws' = t.ws
  /\ orphans' = t.orphans
  /\ wsConnecting' = t.wsConnecting
  /\ isRunning' = t.isRunning
  /\ shouldAutoRunOnce' = t.shouldAutoRunOnce
  /\ terminalInputBuffer' = t.terminalInputBuffer
  /\ wsSent' = t.wsSent
  /\ xtermOut' = t.xtermOut
  /\ xtermResets' = t.xtermResets
  /\ notifications' = t.notifications
  /\ pendingRun' = t.pendingRun
  /\ waiters' = t.waiters
  /\ last' = [op |-> op, target |-> target, data |-> data, late |-> late,
              pre |-> Pre]
  /\ UNCHANGED <<editorValue, languageValue>>

(***************************************************************************)
(* User actions.                                                           *)
(***************************************************************************)
RunButton == Commit(runButtonClick(Cur), "runButton", "none", <<>>, FALSE)

\* The editor's F5 command (script.js:85-89) calls runCode directly.
F5Key == Commit(runCode(Cur), "F5", "none", <<>>, FALSE)

ClearTerminalButton ==
  Commit(clearTerminal(Cur), "clearTerminal", "none", <<>>, FALSE)

TerminalData(chunks) ==
  \E data \in chunks :
    Commit(handleTerminalData(Cur, data), "handleTerminalData", "none", data,
           FALSE)

NoOutput ==
  /\ wsSent' = <<>>
  /\ xtermOut' = <<>>
  /\ xtermResets' = 0
  /\ notifications' = 0

EditorChange(codes) ==
  /\ \E v \in codes : v # editorValue /\ editorValue' = v
  /\ last' = [NoStep EXCEPT !.op = "edit", !.pre = Pre]
  /\ NoOutput
  /\ UNCHANGED <<ws, orphans, wsConnecting, isRunning, shouldAutoRunOnce,
                 terminalInputBuffer, languageValue, pendingRun, waiters>>

LanguageChange(langs) ==
  /\ \E v \in langs : v # languageValue /\ languageValue' = v
  /\ last' = [NoStep EXCEPT !.op = "language", !.pre = Pre]
  /\ NoOutput
  /\ UNCHANGED <<ws, orphans, wsConnecting, isRunning, shouldAutoRunOnce,
                 terminalInputBuffer, editorValue, pendingRun, waiters>>

(***************************************************************************)
(* Socket events, as the browser delivers them.  The target of an event is *)
(* the socket this.ws refers to ("ws") or an orphan of a given kind.       *)
(***************************************************************************)
WsTarget == [ref |-> "ws"]
Targets == {WsTarget} \cup OrphanKinds

hasSocket(target, states) ==
  IF target = WsTarget THEN ws # NULL /\ ws.readyState \in states
  ELSE target.readyState \in states /\ orphans[target] > 0

\* The browser sets the target's readyState.
setReadyState(s, target, st) ==
  IF target = WsTarget THEN [s EXCEPT !.ws.readyState = st]
  ELSE IF st = CLOSED THEN [s EXCEPT !.orphans[target] = @ - 1]
  ELSE [s EXCEPT !.orphans[target] = @ - 1,
                 !.orphans[[target EXCEPT !.readyState = st]] = @ + 1]

targetName(target) == IF target = WsTarget THEN "ws" ELSE "orphan"

\* The connection is established: readyState OPEN, then the open event.
SocketOpen ==
  \E target \in Targets :
    /\ hasSocket(target, {CONNECTING})
    /\ Commit(onopen(setReadyState(Cur, target, OPEN)), "onopen",
              targetName(target), <<>>, FALSE)

\* The closing handshake starts (the server sent a Close frame): CLOSING.
SocketClosing ==
  \E target \in Targets :
    /\ hasSocket(target, {OPEN})
    /\ Commit(setReadyState(Cur, target, CLOSING), "closing",
              targetName(target), <<>>, FALSE)

\* The connection is closed without having failed: CLOSED, then close.
SocketClose ==
  \E target \in Targets, ev \in CloseEvents :
    /\ hasSocket(target, {OPEN, CLOSING})
    /\ Commit(onclose(setReadyState(Cur, target, CLOSED), ev[1], ev[2]),
              "onclose", targetName(target), <<>>, FALSE)

\* The connection failed: CLOSED, then error, then close, in one task.
SocketFail ==
  \E target \in Targets :
    /\ hasSocket(target, LiveStates)
    /\ Commit(onclose(onerror(setReadyState(Cur, target, CLOSED)),
                      CLOSE_ABNORMAL, <<>>),
              "onerror+onclose", targetName(target), <<>>, FALSE)

\* The frame belongs to the oldest run the backend has not ended on the
\* socket; it is late when the session has stopped that run.
isLate(target) ==
  target = WsTarget /\ ws.runs # <<>> /\ Head(ws.runs) = "stopped"

\* The backend has ended the oldest unfinished run of the target.
runEnded(s, target, frame) ==
  IF ~endsRunOnWire(frame) THEN s
  ELSE IF target = WsTarget
    THEN [s EXCEPT !.ws.runs = IF @ # <<>> THEN Tail(@) ELSE @]
  ELSE s

\* A text frame arrives on an open socket.
SocketMessage(frames) ==
  \E target \in Targets, frame \in frames :
    /\ hasSocket(target, {OPEN})
    /\ Commit(onmessage(runEnded(Cur, target, frame), frame), "onmessage",
              targetName(target), frame, isLate(target))

(***************************************************************************)
(* The session specification: the user's run, stop and clear actions, one  *)
(* key per keystroke event, edits of the editor text, and every socket     *)
(* event.                                                                  *)
(***************************************************************************)
Keys == {<<KEY_A>>, <<CR>>, <<ETX>>}
Frames == {EXEC_COMPLETE, FRAME_OUTPUT_HI, FRAME_EXITED}
Codes == {CODE_EMPTY, CODE_BLANK, CODE_X}

Next ==
  \/ RunButton
  \/ F5Key
  \/ ClearTerminalButton
  \/ TerminalData(Keys)
  \/ EditorChange(Codes)
  \/ SocketOpen
  \/ SocketClosing
  \/ SocketClose
  \/ SocketFail
  \/ SocketMessage(Frames)

Spec == Init /\ [][Next]_vars

(***************************************************************************)
(* The line-discipline specification: keystroke chunks of several          *)
(* characters (a paste, or keys the terminal delivers together), on a      *)
(* channel that the run button opens and the backend may close.            *)
(***************************************************************************)
CHUNK_LS == <<108, 115, 32, 45, 108, 13>>         \* 'ls -l\r'
CHUNK_ABC_BS == <<97, 98, 99, 127, 8>>            \* 'abc' DEL BS
KeyAlphabet == {KEY_A, CR, LF, DEL, BS, ETX, ESC}
KeyChunks ==
  {<<x>> : x \in KeyAlphabet}
    \cup {<<x, y>> : x \in KeyAlphabet, y \in KeyAlphabet}
    \cup {CHUNK_LS, CHUNK_ABC_BS, <<DEL, BS, DEL>>, <<KEY_A, KEY_A, CR>>}

NextTerminal ==
  \/ TerminalData(KeyChunks)
  \/ RunButton
  \/ EditorChange({CODE_X})
  \/ SocketOpen
  \/ SocketClosing
  \/ SocketClose

SpecTerminal == Init /\ [][NextTerminal]_vars

(***************************************************************************)
(* The control-character specification: chunks that hold escape sequences  *)
(* (an arrow key, alone or pasted with other keys) and control characters  *)
(* the line discipline has no case for.                                    *)
(***************************************************************************)
CHUNK_UP == <<27, 91, 65>>                        \* ESC '[A' (arrow up)
CHUNK_CR_UP == <<13, 27, 91, 65>>                 \* '\r' ESC '[A'
CHUNK_UP_CR == <<27, 91, 65, 13>>                 \* ESC '[A' '\r'
ControlAlphabet == {KEY_A, TAB, ESC, CR}
ControlChunks ==
  {<<x>> : x \in ControlAlphabet}
    \cup {<<x, y>> : x \in ControlAlphabet, y \in ControlAlphabet}
    \cup {CHUNK_UP, CHUNK_CR_UP, CHUNK_UP_CR, <<0>>, <<KEY_A, 31>>, <<126>>}

NextControl ==
  \/ TerminalData(ControlChunks)
  \/ RunButton
  \/ EditorChange({CODE_X})
  \/ SocketOpen
  \/ SocketClosing
  \/ SocketClose
  \/ SocketMessage({EXEC_COMPLETE})

SpecControl == Init /\ [][NextControl]_vars

(***************************************************************************)
(* The line specification: chunks of text with several line terminators,   *)
(* as a paste or a fast typist produces them.                              *)
(***************************************************************************)
KEY_B == 98                                       \* 'b'
CHUNK_A_CRLF_B == <<97, 13, 10, 98>>              \* 'a\r\nb'
CHUNK_A_CR_B_LF == <<97, 13, 98, 10>>             \* 'a\rb\n'
CHUNK_LF_A_CR_CR == <<10, 97, 13, 13>>            \* '\na\r\r'
LineAlphabet == {KEY_A, KEY_B, CR, LF}
LineChunks ==
  {<<x>> : x \in LineAlphabet}
    \cup {<<x, y>> : x \in LineAlphabet, y \in LineAlphabet}
    \cup {CHUNK_A_CRLF_B, CHUNK_A_CR_B_LF, CHUNK_LF_A_CR_CR, CHUNK_LS}

NextLines ==
  \/ TerminalData(LineChunks)
  \/ RunButton
  \/ EditorChange({CODE_X})
  \/ SocketOpen
  \/ SocketClose

SpecLines == Init /\ [][NextLines]_vars

(***************************************************************************)
(* The dispatcher specification: every shape of inbound frame, arriving    *)
(* while the session is Idle or Running, with or without typed input in    *)
(* the buffer, on the socket this.ws refers to or on an earlier one.       *)
(***************************************************************************)
AllFrames ==
  { WS_READY, FRAME_READY_NL, FRAME_READY_PADDED, EXEC_COMPLETE,
    FRAME_OUTPUT_HI, FRAME_ERROR, FRAME_ERROR_TIMEOUT, FRAME_EXITED,
    FRAME_COMPLETED, FRAME_TIMEOUT, FRAME_STOPPED, FRAME_PLAIN,
    FRAME_TWO_LINES, FRAME_EMPTY }

NextFrames ==
  \/ SocketMessage(AllFrames)
  \/ RunButton
  \/ F5Key
  \/ TerminalData({<<KEY_A>>})
  \/ EditorChange({CODE_X})
  \/ SocketOpen
  \/ SocketClosing
  \/ SocketClose
  \/ SocketFail

SpecFrames == Init /\ [][NextFrames]_vars

(***************************************************************************)
(* The editor specification: the editor text and the language change       *)
(* between runs, and between the queuing of a run and the channel's open.  *)
(***************************************************************************)
EditorCodes == {CODE_EMPTY, CODE_BLANK, CODE_X, CODE_PADDED}
Languages == {LANG_PYTHON, LANG_C}

NextEditor ==
  \/ EditorChange(EditorCodes)
  \/ LanguageChange(Languages)
  \/ RunButton
  \/ F5Key
  \/ SocketOpen
  \/ SocketClosing
  \/ SocketClose
  \/ SocketFail
  \/ SocketMessage({EXEC_COMPLETE})

SpecEditor == Init /\ [][NextEditor]_vars

(***************************************************************************)
(* The earlier version of the client, src/unnamed/part_000.  Its runCode   *)
(* is an async function: it sets isRunning, awaits connectWebSocket when   *)
(* the socket is not open, and then sends a JSON message.  The await ends  *)
(* when a 100 ms interval timer, checkConnection, finds this.ws open.  A   *)
(* waiter is a runCode call suspended in that await, with the code and     *)
(* language it read; its attempt field records whether the socket its call *)
(* created has closed ("over") and serves only to tell whose connection    *)
(* releases it.                                                            *)
(***************************************************************************)
EXEC_COMPLETE_000 ==
  <<69, 88, 69, 67, 85, 84, 73, 79, 78, 95, 67, 79, 77, 80, 76, 69, 84, 69>>
  \* 'EXECUTION_COMPLETE'
RUN_MESSAGE_HEAD ==
  <<123, 34, 97, 99, 116, 105, 111, 110, 34, 58, 34, 114, 117, 110, 34, 44,
    34, 99, 111, 100, 101, 34, 58>>
  \* '{"action":"run","code":'
RUN_MESSAGE_LANGUAGE ==
  <<44, 34, 108, 97, 110, 103, 117, 97, 103, 101, 34, 58>>
  \* ',"language":'
RUN_MESSAGE_TAIL ==
  <<44, 34, 112, 114, 111, 106, 101, 99, 116, 34, 58, 110, 117, 108, 108,
    44, 34, 102, 105, 108, 101, 34, 58, 110, 117, 108, 108, 125>>
  \* ',"project":null,"file":null}'

hexDigit(n) == IF n < 10 THEN 48 + n ELSE 87 + n

\* JSON.stringify of one code unit inside a string.
jsonEscape(ch) ==
  IF ch = 34 THEN <<92, 34>>
  ELSE IF ch = 92 THEN <<92, 92>>
  ELSE IF ch = 8 THEN <<92, 98>>
  ELSE IF ch = 9 THEN <<92, 116>>
  ELSE IF ch = 10 THEN <<92, 110>>
  ELSE IF ch = 12 THEN <<92, 102>>
  ELSE IF ch = 13 THEN <<92, 114>>
  ELSE IF ch < 32
    THEN <<92, 117, 48, 48, hexDigit(ch \div 16), hexDigit(ch % 16)>>
  ELSE <<ch>>

RECURSIVE jsonEscapeAll(_)
jsonEscapeAll(str) ==
  IF str = <<>> THEN <<>>
  ELSE jsonEscape(Head(str)) \o jsonEscapeAll(Tail(str))

\* JSON.stringify of a string.
jsonString(str) == <<34>> \o jsonEscapeAll(str) \o <<34>>

\* JSON.stringify({action: 'run', code, language, project, file}), with no
\* project and no file open.
runMessage(code, language) ==
  RUN_MESSAGE_HEAD \o jsonString(code) \o RUN_MESSAGE_LANGUAGE
    \o jsonString(language) \o RUN_MESSAGE_TAIL

\* clearTerminal of part_000: xterm.clear(), the buffer is kept.
clearTerminal000(s) == [s EXCEPT !.xtermResets = @ + 1, !.xtermOut = <<>>]

\* The rest of runCode after its await: the send, when the socket is open.
resumeRunCode000(s, code, language) ==
  IF wsIsOpen(s) THEN wsSend(s, runMessage(code, language)) ELSE s

\* connectWebSocket of part_000, called by runCode and awaited.  With an
\* attempt outstanding it returns at once and runCode resumes in the same
\* task; otherwise the call stays suspended on the interval timer.
connectWebSocket000(s) ==
  IF s.wsConnecting THEN resumeRunCode000(s, s.code, s.language)
  ELSE LET s1 == newWebSocket([s EXCEPT !.wsConnecting = TRUE])
       IN [s1 EXCEPT !.waiters =
             Append(@, [code |-> s.code, language |-> s.language,
                        attempt |-> "pending"])]

\* runCode of part_000; alert() is counted as a notification.
runCode000(s) ==
  IF trim(s.code) = <<>> THEN showNotification(s)
  ELSE LET s1 == [clearTerminal000(s) EXCEPT !.isRunning = TRUE]
       IN IF s1.ws = NULL \/ s1.ws.readyState # OPEN
          THEN connectWebSocket000(s1)
          ELSE resumeRunCode000(s1, s.code, s.language)

\* The interval callback of waiter i: when this.ws is open the interval is
\* cleared and the promise resolved, and the run() call resumes.
checkConnection(s, i) ==
  IF wsIsOpen(s)
  THEN LET w == s.waiters[i]
           s1 == [s EXCEPT !.waiters = SubSeq(@, 1, i - 1)
                                         \o SubSeq(@, i + 1, Len(@))]
       IN resumeRunCode000(s1, w.code, w.language)
  ELSE s

onopen000(s) == [s EXCEPT !.wsConnecting = FALSE]

onerror000(s) == [s EXCEPT !.wsConnecting = FALSE]

\* onclose of part_000.  No interval is cleared: the waiters stay, and the
\* attempt of each is over.
onclose000(s) ==
  [setWs(s, NULL) EXCEPT
     !.wsConnecting = FALSE,
     !.isRunning = FALSE,
     !.waiters = [i \in 1 .. Len(@) |-> [@[i] EXCEPT !.attempt = "over"]]]

handleWebSocketMessage(s, data) ==
  IF startsWith(data, OUTPUT_PREFIX)
  THEN xtermWrite(s, replaceNewlines000(substring(data, 7)))
  ELSE IF data = EXEC_COMPLETE_000 THEN [s EXCEPT !.isRunning = FALSE]
  ELSE IF startsWith(data, ERROR_PREFIX)
    THEN [xtermWrite(s, SGR_RED \o substring(data, 6) \o SGR_RESET \o CRLF)
            EXCEPT !.isRunning = FALSE]
  ELSE s

stopExecution000(s) ==
  LET s1 == IF wsIsOpen(s) THEN wsSend(s, STOP_CMD) ELSE s
  IN [s1 EXCEPT !.isRunning = FALSE]

runButtonClick000(s) ==
  IF s.isRunning THEN stopExecution000(s) ELSE runCode000(s)

RunButton000 ==
  Commit(runButtonClick000(Cur), "runButton", "none", <<>>, FALSE)

F5Key000 == Commit(runCode000(Cur), "F5", "none", <<>>, FALSE)

SocketOpen000 ==
  /\ hasSocket(WsTarget, {CONNECTING})
  /\ Commit(onopen000(setReadyState(Cur, WsTarget, OPEN)), "onopen", "ws",
            <<>>, FALSE)

SocketClose000 ==
  /\ hasSocket(WsTarget, {OPEN})
  /\ Commit(onclose000(setReadyState(Cur, WsTarget, CLOSED)), "onclose", "ws",
            <<>>, FALSE)

SocketFail000 ==
  /\ hasSocket(WsTarget, {CONNECTING, OPEN})
  /\ Commit(onclose000(onerror000(setReadyState(Cur, WsTarget, CLOSED))),
            "onerror+onclose", "ws", <<>>, FALSE)

SocketMessage000(frames) ==
  \E frame \in frames :
    /\ hasSocket(WsTarget, {OPEN})
    /\ Commit(handleWebSocketMessage(Cur, frame), "onmessage", "ws", frame,
              FALSE)

\* The timer of a waiter fires while this.ws is open.  The step records the
\* code of the waiter and whether its own attempt was over by then.
CheckConnection ==
  \E i \in 1 .. Len(waiters) :
    /\ hasSocket(WsTarget, {OPEN})
    /\ Commit(checkConnection(Cur, i), "checkConnection", "waiter",
              waiters[i].code, waiters[i].attempt = "over")

Frames000 == {EXEC_COMPLETE_000, FRAME_OUTPUT_HI, FRAME_ERROR, FRAME_PLAIN}

Next000 ==
  \/ RunButton000
  \/ F5Key000
  \/ EditorChange({CODE_X, CODE_PADDED})
  \/ SocketOpen000
  \/ SocketClose000
  \/ SocketFail000
  \/ SocketMessage000(Frames000)
  \/ CheckConnection

Spec000 == Init /\ [][Next000]_vars

\* The terminal of part_000: handleTerminalData there is the same code as in
\* script.js (lines 223-270 of both files).
NextTerminal000 ==
  \/ TerminalData({<<KEY_A>>, <<CR>>, <<KEY_A, CR>>})
  \/ RunButton000
  \/ EditorChange({CODE_X})
  \/ SocketOpen000
  \/ SocketClose000
  \/ SocketMessage000({EXEC_COMPLETE_000})
  \/ CheckConnection

SpecTerminal000 == Init /\ [][NextTerminal000]_vars

(***************************************************************************)
(* What the last step did.                                                 *)
(***************************************************************************)
runCommandsSent ==
  Cardinality({i \in 1 .. Len(wsSent) : isRunCommand(wsSent[i].data)})

stopCommandsSent ==
  Cardinality({i \in 1 .. Len(wsSent) : wsSent[i].data = STOP_CMD})

countOccurrences(str, part) ==
  Cardinality({i \in 1 .. (Len(str) - Len(part) + 1) :
                 SubSeq(str, i, i + Len(part) - 1) = part})

connectingSockets ==
  (IF ws.readyState = CONNECTING THEN 1 ELSE 0)
    + sumOver(orphans, {o \in OrphanKinds : o.readyState = CONNECTING})

\* The last step was a call of runCode by the user.
lastWasRunCall ==
  \/ last.op = "F5"
  \/ last.op = "runButton" /\ ~last.pre.isRunning

\* The last step was a call of stopExecution.
lastWasStopCall == last.op = "runButton" /\ last.pre.isRunning

lastWasClose == last.op \in {"onclose", "onerror+onclose"}


(***************************************************************************)
(* C1.  A run() call made while the session is Running is a no-op: it      *)
(* sends no RUN command, does not reset the terminal and leaves the input  *)
(* buffer as it was.                                                       *)
(***************************************************************************)
C1_RunWhileRunningIsNoOp ==
  (lastWasRunCall /\ last.pre.isRunning) =>
    /\ runCommandsSent = 0
    /\ xtermResets = 0
    /\ terminalInputBuffer = last.pre.terminalInputBuffer

(***************************************************************************)
(* C2.  Whenever a socket opens while a run is queued (and the editor      *)
(* holds code to run), that open sends exactly one RUN command and leaves  *)
(* the pending marker cleared.                                             *)
(***************************************************************************)
C2_QueuedRunSentOnceOnOpen ==
  (/\ last.op = "onopen"
   /\ last.pre.shouldAutoRunOnce
   /\ trim(editorValue) # <<>>) =>
    /\ runCommandsSent = 1
    /\ ~shouldAutoRunOnce

(***************************************************************************)
(* C3.  At most one socket is in the CONNECTING state.                     *)
(***************************************************************************)
C3_AtMostOneConnecting == connectingSockets <= 1

(***************************************************************************)
(* C4.  stopExecution called while Running leaves the session Idle in the  *)
(* same step, whether or not the channel is open; it sends one STOP when   *)
(* the channel is open and nothing otherwise; and no step other than a     *)
(* stop call or a keystroke sends STOP (a STOP is never re-sent later).    *)
(***************************************************************************)
C4_StopSetsIdleAtOnce ==
  /\ lastWasStopCall =>
       /\ ~isRunning
       /\ wsSent = IF last.pre.ws.readyState = OPEN
                   THEN <<[data |-> STOP_CMD, readyState |-> OPEN]>>
                   ELSE <<>>
  /\ stopCommandsSent > 0 =>
       (lastWasStopCall \/ last.op = "handleTerminalData")

\* stop() was called while Running on an open channel, and sent its STOP.
C4_Witness ==
  /\ lastWasStopCall
  /\ last.pre.ws.readyState = OPEN
  /\ stopCommandsSent = 1
  /\ ~isRunning

\* stop() was called while Running on a channel that was no longer open.
C4_WitnessNotOpen ==
  /\ lastWasStopCall
  /\ last.pre.ws.readyState # OPEN
  /\ ~isRunning

(***************************************************************************)
(* C5.  A close while Running leaves the session Idle and renders exactly  *)
(* one "connection lost" notice, also when a transport error precedes the  *)
(* close; a close while Idle renders none and leaves the session Idle.     *)
(***************************************************************************)
C5_OneConnectionLostNotice ==
  lastWasClose =>
    /\ ~isRunning
    /\ countOccurrences(xtermOut, replaceNewlines(CONN_LOST))
         = IF last.pre.isRunning THEN 1 ELSE 0

(***************************************************************************)
(* C6.  While the session is Running, the channel (the socket this.ws      *)
(* refers to) is open; a socket whose closing handshake has started but    *)
(* whose close event is still to come is counted as open here.             *)
(***************************************************************************)
C6_RunningImpliesChannelOpen ==
  isRunning => (ws # NULL /\ ws.readyState \in {OPEN, CLOSING})

(***************************************************************************)
(* C7.  A late frame (one that belongs to a run the session has stopped)   *)
(* does not change the run/stop state, whether the session is Idle or has  *)
(* started a new run.                                                      *)
(***************************************************************************)
C7_LateFramesKeepRunState ==
  (last.op = "onmessage" /\ last.late) => isRunning = last.pre.isRunning

(***************************************************************************)
(* C8.  A chunk of printable characters s followed by one carriage return, *)
(* handled while the channel is open, sends exactly one command, INPUT     *)
(* followed by what the buffer held and s, echoes s and CR LF, and leaves  *)
(* the buffer empty.  With an empty buffer: 'ls -l\r' sends 'INPUT ls -l'. *)
(***************************************************************************)
isPrintable(ch) == ch >= SPACE /\ ch # DEL

isPrintableLine(data) ==
  /\ Len(data) >= 1
  /\ data[Len(data)] = CR
  /\ \A i \in 1 .. (Len(data) - 1) : isPrintable(data[i])

C8_LineFlushedAsOneInput ==
  (/\ last.op = "handleTerminalData"
   /\ isPrintableLine(last.data)
   /\ last.pre.ws.readyState = OPEN) =>
    LET s == SubSeq(last.data, 1, Len(last.data) - 1)
    IN /\ wsSent = <<[data |-> INPUT_PREFIX \o last.pre.terminalInputBuffer
                                 \o s,
                      readyState |-> OPEN]>>
       /\ xtermOut = s \o CRLF
       /\ terminalInputBuffer = <<>>

\* 'ls -l\r' was typed into an empty buffer on an open channel.
C8_Witness ==
  /\ last.op = "handleTerminalData"
  /\ last.data = CHUNK_LS
  /\ last.pre.ws.readyState = OPEN
  /\ last.pre.terminalInputBuffer = <<>>
  /\ Len(wsSent) = 1
  /\ wsSent[1].data = <<73, 78, 80, 85, 84, 32, 108, 115, 32, 45, 108>>
  /\ xtermOut = <<108, 115, 32, 45, 108, 13, 10>>

(***************************************************************************)
(* C9.  A chunk of printable characters followed by k >= 1 backspaces      *)
(* (DEL or BS): with n the length of the buffer after the printable        *)
(* characters, the buffer becomes its prefix of length max(0, n - k), one  *)
(* destructive echo is written per character removed (min(n, k) of them),  *)
(* and nothing is sent.  'abc' and two backspaces leave 'a'.               *)
(***************************************************************************)
RECURSIVE printablePrefix(_)
printablePrefix(data) ==
  IF data # <<>> /\ isPrintable(Head(data))
  THEN <<Head(data)>> \o printablePrefix(Tail(data))
  ELSE <<>>

RECURSIVE repeat(_, _)
repeat(str, n) == IF n = 0 THEN <<>> ELSE str \o repeat(str, n - 1)

isEraseChunk(data) ==
  LET p == printablePrefix(data)
  IN /\ Len(data) > Len(p)
     /\ \A i \in (Len(p) + 1) .. Len(data) : data[i] \in {DEL, BS}

C9_BackspaceRemovesLastChar ==
  (last.op = "handleTerminalData" /\ isEraseChunk(last.data)) =>
    LET p == printablePrefix(last.data)
        k == Len(last.data) - Len(p)
        typed == last.pre.terminalInputBuffer \o p
        n == Len(typed)
        removed == IF k < n THEN k ELSE n
    IN /\ terminalInputBuffer = SubSeq(typed, 1, n - removed)
       /\ xtermOut = p \o repeat(BS_ECHO, removed)
       /\ wsSent = <<>>
       /\ isRunning = last.pre.isRunning
       /\ ws = last.pre.ws

\* 'abc' and two backspaces were typed into an empty buffer, leaving 'a'.
C9_Witness ==
  /\ last.op = "handleTerminalData"
  /\ last.data = CHUNK_ABC_BS
  /\ last.pre.terminalInputBuffer = <<>>
  /\ terminalInputBuffer = <<97>>
  /\ xtermOut = <<97, 98, 99>> \o BS_ECHO \o BS_ECHO

\* A backspace on an empty buffer.
C9_WitnessEmpty ==
  /\ last.op = "handleTerminalData"
  /\ last.data = <<DEL, BS, DEL>>
  /\ Len(last.pre.terminalInputBuffer) = 1
  /\ terminalInputBuffer = <<>>
  /\ xtermOut = BS_ECHO

(***************************************************************************)
(* C10.  The frame 'OUTPUT hi\n' renders 'hi' and a normalised newline,    *)
(* not the word OUTPUT, and leaves the run state as it was.                *)
(***************************************************************************)
C10_OutputPrefixStripped ==
  (last.op = "onmessage" /\ last.data = FRAME_OUTPUT_HI) =>
    /\ xtermOut = <<104, 105>> \o CRLF
    /\ isRunning = last.pre.isRunning

(***************************************************************************)
(* What the wire contract calls a frame.                                   *)
(***************************************************************************)
isBanner(frame) == trim(frame) = WS_READY
isSentinel(frame) == frame = EXEC_COMPLETE
hasStructuredPrefix(frame) ==
  startsWith(frame, OUTPUT_PREFIX) \/ startsWith(frame, ERROR_PREFIX)

\* A message step left the channel, the pending run and the buffer alone.
messageKeptChannelAndBuffer ==
  /\ wsSent = <<>>
  /\ ws.readyState = last.pre.ws.readyState
  /\ wsConnecting = last.pre.wsConnecting
  /\ shouldAutoRunOnce = last.pre.shouldAutoRunOnce
  /\ terminalInputBuffer = last.pre.terminalInputBuffer

(***************************************************************************)
(* C11.  A frame equal to the completion sentinel ends the run (the        *)
(* session is Idle after it), renders no text, sends nothing and leaves    *)
(* the channel state and the input buffer unchanged.                       *)
(***************************************************************************)
C11_SentinelEndsRunSilently ==
  (last.op = "onmessage" /\ isSentinel(last.data)) =>
    /\ ~isRunning
    /\ xtermOut = <<>>
    /\ xtermResets = 0
    /\ messageKeptChannelAndBuffer

\* The sentinel arrived while Running with typed input in the buffer.
C11_Witness ==
  /\ last.op = "onmessage"
  /\ last.data = EXEC_COMPLETE
  /\ last.pre.isRunning
  /\ ~isRunning
  /\ last.pre.terminalInputBuffer # <<>>
  /\ terminalInputBuffer = last.pre.terminalInputBuffer

(***************************************************************************)
(* C12.  A free-text frame without a structured prefix that contains a     *)
(* completion phrase ends the run (the session is Idle after it) and is    *)
(* rendered as normal output with its text unchanged except that each line *)
(* break (LF or CR LF) is written as CR LF.                                *)
(***************************************************************************)
isPhraseFrame(frame) ==
  /\ ~isBanner(frame)
  /\ ~isSentinel(frame)
  /\ ~hasStructuredPrefix(frame)
  /\ hasCompletionPhrase(frame)

C13_ErrorFrameEndsRun ==
  (last.op = "onmessage" /\ startsWith(last.data, ERROR_PREFIX)) =>
    /\ ~isRunning
    /\ startsWith(xtermOut, SGR_RED)
    /\ ~includes(xtermOut, ERROR_PREFIX)

(***************************************************************************)
(* C14.  A frame that is not the banner, not the sentinel, has no          *)
(* structured prefix and holds no completion phrase is rendered as normal  *)
(* output, its text unchanged except that each line break is written as    *)
(* CR LF, and changes nothing else: run state, channel state, pending run  *)
(* and input buffer are as before, and nothing is sent.                    *)
(***************************************************************************)
isPlainFrame(frame) ==
  /\ ~isBanner(frame)
  /\ ~isSentinel(frame)
  /\ ~hasStructuredPrefix(frame)
  /\ ~hasCompletionPhrase(frame)

C14_WitnessIdle ==
  /\ last.op = "onmessage"
  /\ last.data = FRAME_PLAIN
  /\ ~last.pre.isRunning
  /\ ~isRunning
  /\ xtermOut = FRAME_PLAIN

(***************************************************************************)
(* C15.  The handshake banner (alone or surrounded by white space) is      *)
(* discarded in whichever state it arrives: nothing is rendered, notified  *)
(* or sent, and run state, channel state, pending run and input buffer are *)
(* as before.                                                              *)
(***************************************************************************)
C15_BannerDiscarded ==
  (last.op = "onmessage" /\ isBanner(last.data)) =>
    /\ xtermOut = <<>>
    /\ xtermResets = 0
    /\ notifications = 0
    /\ isRunning = last.pre.isRunning
    /\ messageKeptChannelAndBuffer

\* The banner, padded with white space, arrived while Running.
C15_Witness ==
  /\ last.op = "onmessage"
  /\ last.data = FRAME_READY_PADDED
  /\ last.pre.isRunning
  /\ isRunning
  /\ last.pre.terminalInputBuffer # <<>>
  /\ xtermOut = <<>>

\* The banner arrived on an earlier socket while a new one was connecting.
C15_WitnessConnecting ==
  /\ last.op = "onmessage"
  /\ last.data = WS_READY
  /\ last.target = "orphan"
  /\ wsConnecting
  /\ shouldAutoRunOnce

(***************************************************************************)
(* C16.  runCode with empty or white-space-only code only shows the        *)
(* warning: it sends nothing, starts no connection attempt, queues no      *)
(* pending run, does not clear the terminal and leaves the run state as it *)
(* was.  The same holds when the queued run is dispatched by the open      *)
(* event: only the warning, and the pending marker is cleared.             *)
(***************************************************************************)
codeIsBlank == trim(editorValue) = <<>>

C16_BlankCodeOnlyWarns ==
  /\ (lastWasRunCall /\ codeIsBlank) =>
       /\ notifications = 1
       /\ wsSent = <<>>
       /\ ws = last.pre.ws
       /\ wsConnecting = last.pre.wsConnecting
       /\ shouldAutoRunOnce = last.pre.shouldAutoRunOnce
       /\ xtermResets = 0
       /\ xtermOut = <<>>
       /\ terminalInputBuffer = last.pre.terminalInputBuffer
       /\ isRunning = last.pre.isRunning
  /\ (last.op = "onopen" /\ last.pre.shouldAutoRunOnce /\ codeIsBlank) =>
       /\ notifications = 1
       /\ wsSent = <<>>
       /\ ws = IF last.target = "ws"
               THEN [last.pre.ws EXCEPT !.readyState = OPEN]
               ELSE last.pre.ws
       /\ ~shouldAutoRunOnce
       /\ xtermResets = 0
       /\ xtermOut = <<>>
       /\ terminalInputBuffer = last.pre.terminalInputBuffer
       /\ isRunning = last.pre.isRunning

\* runCode was called with white-space-only code and no channel.
C16_Witness ==
  /\ lastWasRunCall
  /\ editorValue = CODE_BLANK
  /\ last.pre.ws = NULL
  /\ ws = NULL
  /\ notifications = 1

\* A run was queued, the code was then blanked, and the channel opened.
C16_WitnessOnOpen ==
  /\ last.op = "onopen"
  /\ last.pre.shouldAutoRunOnce
  /\ editorValue = CODE_BLANK
  /\ ws.readyState = OPEN
  /\ notifications = 1
  /\ ~isRunning

C18_IdleKeystrokesSendNothing ==
  (last.op = "handleTerminalData" /\ ~last.pre.isRunning) => wsSent = <<>>

(***************************************************************************)
(* C19.  A stop made while no session is Running (the stop button, or the  *)
(* interrupt key Ctrl+C, which the line discipline treats as a stop) sends *)
(* no STOP command and leaves the session Idle.                            *)
(***************************************************************************)
lastWasInterruptKey ==
  /\ last.op = "handleTerminalData"
  /\ ~startsWith(last.data, <<ESC>>)
  /\ \E i \in 1 .. Len(last.data) : last.data[i] = ETX

C19_StopWhileIdleSendsNothing ==
  (~last.pre.isRunning /\ (lastWasStopCall \/ lastWasInterruptKey)) =>
    /\ stopCommandsSent = 0
    /\ ~isRunning

(***************************************************************************)
(* C20.  No failure is fatal.  After a transport error, a failed           *)
(* connection attempt, a close or an ERROR frame, the session is Idle and  *)
(* no connection attempt is marked outstanding; a runCode with non-blank   *)
(* code made from an Idle state with no attempt marked either sends its    *)
(* RUN on the open channel or leaves a socket connecting with the run      *)
(* queued; and the open event that finds a run queued sends the RUN.       *)
(***************************************************************************)
lastWasFailure ==
  \/ lastWasClose
  \/ last.op = "onmessage" /\ startsWith(last.data, ERROR_PREFIX)

C20_NoFailureIsFatal ==
  /\ lastWasFailure => (~isRunning /\ ~wsConnecting)
  /\ (/\ lastWasRunCall
      /\ ~last.pre.isRunning
      /\ ~last.pre.wsConnecting
      /\ ~codeIsBlank) =>
       \/ runCommandsSent = 1 /\ isRunning /\ ws.readyState = OPEN
       \/ runCommandsSent = 0 /\ shouldAutoRunOnce
            /\ ws.readyState = CONNECTING
  /\ (last.op = "onopen" /\ last.pre.shouldAutoRunOnce /\ ~codeIsBlank) =>
       runCommandsSent = 1

(***************************************************************************)
(* C21.  A chunk of printable characters followed by one Ctrl-C echoes the *)
(* characters, '^C' and CR LF, leaves the buffer empty, sends exactly one  *)
(* STOP when the channel is open and nothing otherwise, and leaves the     *)
(* session Idle in the same step; the commands it sends, the socket and    *)
(* the run state it leaves are those stopExecution leaves from the same    *)
(* state.                                                                  *)
(***************************************************************************)
isInterruptChunk(data) ==
  /\ Len(data) >= 1
  /\ data[Len(data)] = ETX
  /\ \A i \in 1 .. (Len(data) - 1) : isPrintable(data[i])

\* stopExecution applied to the state the last step started from.
stopFromPre ==
  stopExecution([Cur EXCEPT !.ws = last.pre.ws,
                            !.isRunning = last.pre.isRunning])

C21_InterruptIsStop ==
  (last.op = "handleTerminalData" /\ isInterruptChunk(last.data)) =>
    /\ xtermOut = SubSeq(last.data, 1, Len(last.data) - 1) \o CTRL_C_ECHO
    /\ terminalInputBuffer = <<>>
    /\ wsSent = IF last.pre.ws.readyState = OPEN
                THEN <<[data |-> STOP_CMD, readyState |-> OPEN]>>
                ELSE <<>>
    /\ ~isRunning
    /\ wsSent = stopFromPre.wsSent
    /\ isRunning = stopFromPre.isRunning
    /\ ws = stopFromPre.ws

\* Ctrl-C was pressed while Running on an open channel, input half typed.
C21_Witness ==
  /\ last.op = "handleTerminalData"
  /\ last.data = <<ETX>>
  /\ last.pre.isRunning
  /\ last.pre.ws.readyState = OPEN
  /\ last.pre.terminalInputBuffer # <<>>
  /\ stopCommandsSent = 1
  /\ ~isRunning
  /\ xtermOut = <<94, 67, 13, 10>>

\* Ctrl-C was pressed while Running after the channel had started closing.
C21_WitnessNotOpen ==
  /\ last.op = "handleTerminalData"
  /\ last.data = <<KEY_A, ETX>>
  /\ last.pre.isRunning
  /\ last.pre.ws.readyState = CLOSING
  /\ wsSent = <<>>
  /\ ~isRunning

(***************************************************************************)
(* C22.  Escape sequences are dropped wherever they occur in a chunk: the  *)
(* chunk has the effect (buffer, echo, commands sent, run state) that the  *)
(* chunk without its escape sequences has.  A sequence is ESC '[' with its *)
(* parameter and intermediate bytes up to a final byte (a control          *)
(* sequence), or else ESC and the character after it.                      *)
(***************************************************************************)
isParameterByte(ch) == ch >= 48 /\ ch <= 63
isIntermediateByte(ch) == ch >= 32 /\ ch <= 47
isFinalByte(ch) == ch >= 64 /\ ch <= 126

\* What is left of str after the parameter and intermediate bytes and the
\* final byte of a control sequence.
RECURSIVE afterControlSequence(_)
afterControlSequence(str) ==
  IF str = <<>> THEN <<>>
  ELSE IF isParameterByte(Head(str)) \/ isIntermediateByte(Head(str))
    THEN afterControlSequence(Tail(str))
  ELSE IF isFinalByte(Head(str)) THEN Tail(str)
  ELSE str

RECURSIVE stripEscapes(_)
stripEscapes(str) ==
  IF str = <<>> THEN <<>>
  ELSE IF Head(str) # ESC THEN <<Head(str)>> \o stripEscapes(Tail(str))
  ELSE IF Len(str) = 1 THEN <<>>
  ELSE IF str[2] = 91 THEN stripEscapes(afterControlSequence(Tail(Tail(str))))
  ELSE stripEscapes(Tail(Tail(str)))

\* The object as it was when the last step started.
preState ==
  [Cur EXCEPT !.ws = last.pre.ws,
              !.isRunning = last.pre.isRunning,
              !.terminalInputBuffer = last.pre.terminalInputBuffer]

C22_EscapeSequencesDropped ==
  (/\ last.op = "handleTerminalData"
   /\ \E i \in 1 .. Len(last.data) : last.data[i] = ESC) =>
    LET expected == handleChars(preState, stripEscapes(last.data))
    IN /\ terminalInputBuffer = expected.terminalInputBuffer
       /\ xtermOut = expected.xtermOut
       /\ wsSent = expected.wsSent
       /\ isRunning = expected.isRunning

(***************************************************************************)
(* C23.  In a chunk made of printable characters and of control characters *)
(* other than CR, LF, Ctrl-C, backspace and DEL (and that does not begin   *)
(* an escape sequence), each printable character is appended to the buffer *)
(* and echoed unchanged, in order, and each control character is dropped   *)
(* with no echo; nothing is sent, and the run state and the socket are as  *)
(* before.                                                                 *)
(***************************************************************************)
isOtherControl(ch) == ch < SPACE /\ ch \notin {CR, LF, ETX, BS}

RECURSIVE printableOnly(_)
printableOnly(data) ==
  IF data = <<>> THEN <<>>
  ELSE IF isPrintable(Head(data))
    THEN <<Head(data)>> \o printableOnly(Tail(data))
  ELSE printableOnly(Tail(data))

isTypingChunk(data) ==
  /\ Len(data) >= 1
  /\ data[1] # ESC
  /\ \A i \in 1 .. Len(data) : isPrintable(data[i]) \/ isOtherControl(data[i])

C23_PrintableAppendedControlDropped ==
  (last.op = "handleTerminalData" /\ isTypingChunk(last.data)) =>
    /\ terminalInputBuffer
         = last.pre.terminalInputBuffer \o printableOnly(last.data)
    /\ xtermOut = printableOnly(last.data)
    /\ wsSent = <<>>
    /\ isRunning = last.pre.isRunning
    /\ ws = last.pre.ws

\* 'a' and a control character (US, 31) were typed after one character.
C23_Witness ==
  /\ last.op = "handleTerminalData"
  /\ last.data = <<KEY_A, 31>>
  /\ Len(last.pre.terminalInputBuffer) = 1
  /\ terminalInputBuffer = last.pre.terminalInputBuffer \o <<KEY_A>>
  /\ xtermOut = <<KEY_A>>

\* A tab alone was typed while Running: nothing echoed, nothing buffered.
C23_WitnessControl ==
  /\ last.op = "handleTerminalData"
  /\ last.data = <<TAB>>
  /\ last.pre.isRunning
  /\ last.pre.terminalInputBuffer # <<>>
  /\ terminalInputBuffer = last.pre.terminalInputBuffer
  /\ xtermOut = <<>>

(***************************************************************************)
(* C24.  The input buffer is empty in every state in which the session is  *)
(* Idle.                                                                   *)
(***************************************************************************)
C24_BufferEmptyWhenIdle == ~isRunning => terminalInputBuffer = <<>>

(***************************************************************************)
(* C25.  After every close event, this.ws is null, no pending run is       *)
(* queued and the input buffer is empty.                                   *)
(***************************************************************************)
C25_CloseDiscardsPendingRun ==
  lastWasClose =>
    /\ ws = NULL
    /\ ~shouldAutoRunOnce
    /\ terminalInputBuffer = <<>>

(***************************************************************************)
(* C26.  Every command is sent on a socket that is OPEN at the time of     *)
(* the send.  A stop, an Enter or a Ctrl-C handled when this.ws is not     *)
(* open sends nothing and still does its state change: the stop and the    *)
(* Ctrl-C leave the session Idle, the Enter and the Ctrl-C leave the       *)
(* buffer empty.                                                           *)
(***************************************************************************)
lastWasKey(ch) == last.op = "handleTerminalData" /\ last.data = <<ch>>

C26_SendsOnlyOnOpenChannel ==
  /\ \A i \in 1 .. Len(wsSent) : wsSent[i].readyState = OPEN
  /\ (last.pre.ws.readyState # OPEN
        /\ (lastWasStopCall \/ lastWasKey(CR) \/ lastWasKey(ETX))) =>
       /\ wsSent = <<>>
       /\ (lastWasStopCall \/ lastWasKey(ETX)) => ~isRunning
       /\ (lastWasKey(CR) \/ lastWasKey(ETX)) => terminalInputBuffer = <<>>

\* Enter was pressed, with input typed, after the channel started closing.
C26_Witness ==
  /\ lastWasKey(CR)
  /\ last.pre.ws.readyState = CLOSING
  /\ last.pre.terminalInputBuffer # <<>>
  /\ terminalInputBuffer = <<>>
  /\ wsSent = <<>>
  /\ xtermOut = CRLF

\* A RUN, then an INPUT, went out on the open channel.
C26_WitnessSent ==
  /\ lastWasKey(CR)
  /\ last.pre.ws.readyState = OPEN
  /\ Len(wsSent) = 1
  /\ wsSent[1].readyState = OPEN
  /\ startsWith(wsSent[1].data, INPUT_PREFIX)

(***************************************************************************)
(* C27.  The RUN command that an open event sends for the queued run       *)
(* carries the code and the language of the run() call that queued it.     *)
(***************************************************************************)
C27_QueuedRunKeepsItsRequest ==
  (last.op = "onopen" /\ runCommandsSent > 0) =>
    \A i \in 1 .. Len(wsSent) :
      wsSent[i].data = RUN_PREFIX \o pendingRun.language \o <<SPACE>>
                         \o pendingRun.code

(***************************************************************************)
(* C28.  The channel is never reconnected automatically: only a step that  *)
(* is a run() call of the user (the run button, F5) creates a socket; no   *)
(* open, close, error or message event, and no other step, does.           *)
(***************************************************************************)
liveSockets == socketCount(Cur)

C28_NoAutomaticReconnect ==
  [][last'.op \notin {"runButton", "F5"} => liveSockets' <= liveSockets]_vars

(***************************************************************************)
(* C30.  this.ws always names the live socket: no socket that is           *)
(* CONNECTING or OPEN exists beside the one this.ws refers to.             *)
(***************************************************************************)
C30_NoLiveSocketOrphaned ==
  \A o \in OrphanKinds : o.readyState \in {CONNECTING, OPEN} => orphans[o] = 0

(***************************************************************************)
(* C29.  (part_000)  A run() call suspended on opening the channel is      *)
(* released when its connection attempt opens or fails: no call stays      *)
(* suspended once the socket it created has closed; and a call that        *)
(* resumes does so on its own connection, and sends its run message once.  *)
(***************************************************************************)
\* A run() call whose own attempt had failed resumes on a later connection
\* and sends its run message.
staleRunReleased ==
  /\ last.op = "checkConnection"
  /\ last.late
  /\ wsSent # <<>>

C29_WaitEndsWithItsAttempt ==
  /\ \A i \in 1 .. Len(waiters) : waiters[i].attempt = "pending"
  /\ last.op = "checkConnection" =>
       /\ ~last.late
       /\ wsSent = <<[data |-> runMessage(last.data, languageValue),
                      readyState |-> OPEN]>>

\* The last step sent a run request: the RUN text command, or the JSON run
\* message of part_000.
sentRunRequest ==
  \E i \in 1 .. Len(wsSent) :
    \/ isRunCommand(wsSent[i].data)
    \/ startsWith(wsSent[i].data, RUN_MESSAGE_HEAD)

(***************************************************************************)
(* C31.  Every run starts with an empty input buffer: after a step that    *)
(* sends a run request the buffer is empty, so nothing typed before the    *)
(* run can be delivered to it as INPUT.                                    *)
(***************************************************************************)
C31_RunStartsWithEmptyBuffer ==
  sentRunRequest => terminalInputBuffer = <<>>

\* A chunk of text and line terminators only.
isLineChunk(data) ==
  /\ Len(data) >= 1
  /\ \A i \in 1 .. Len(data) : isPrintable(data[i]) \/ data[i] \in {CR, LF}

terminatorCount(data) ==
  Cardinality({i \in 1 .. Len(data) : data[i] \in {CR, LF}})

\* The position of the k-th line terminator of the chunk; 0 for k = 0.
terminatorPosition(data, k) ==
  IF k = 0 THEN 0
  ELSE CHOOSE i \in 1 .. Len(data) :
         /\ data[i] \in {CR, LF}
         /\ terminatorCount(SubSeq(data, 1, i)) = k

\* What was buffered before the chunk belongs to its first line: line 1 of
\* the lines the chunk ends, or the unended line 1 of a chunk that ends none.
carriedOver(buffer, line) == IF line = 1 THEN buffer ELSE <<>>

\* The characters buffered when the k-th terminator of the chunk arrives.
linePayload(buffer, data, k) ==
  carriedOver(buffer, k)
    \o SubSeq(data, terminatorPosition(data, k - 1) + 1,
              terminatorPosition(data, k) - 1)

\* The characters after the last terminator of the chunk.
unterminatedTail(buffer, data) ==
  LET m == terminatorCount(data)
  IN carriedOver(buffer, m + 1)
       \o SubSeq(data, terminatorPosition(data, m) + 1, Len(data))

(***************************************************************************)
(* C32.  Each CR and each LF is its own flush: with the channel open, a    *)
(* chunk of text holding m line terminators sends exactly m INPUT          *)
(* commands, in order, each with the characters buffered since the         *)
(* previous terminator (empty when there are none, as for the LF of CR LF),*)
(* and the characters after the last terminator stay in the buffer.        *)
(***************************************************************************)
C32_EachTerminatorFlushes ==
  (/\ last.op = "handleTerminalData"
   /\ isLineChunk(last.data)
   /\ last.pre.ws.readyState = OPEN) =>
    /\ Len(wsSent) = terminatorCount(last.data)
    /\ \A k \in 1 .. Len(wsSent) :
         wsSent[k].data
           = INPUT_PREFIX
               \o linePayload(last.pre.terminalInputBuffer, last.data, k)
    /\ terminalInputBuffer
         = unterminatedTail(last.pre.terminalInputBuffer, last.data)

\* 'a\r\nb' typed with 'a' already buffered: 'INPUT aa', then an empty
\* INPUT for the line feed, and 'b' stays buffered.
C32_Witness ==
  /\ last.op = "handleTerminalData"
  /\ last.data = CHUNK_A_CRLF_B
  /\ last.pre.ws.readyState = OPEN
  /\ last.pre.terminalInputBuffer = <<KEY_A>>
  /\ Len(wsSent) = 2
  /\ wsSent[1].data = INPUT_PREFIX \o <<KEY_A, KEY_A>>
  /\ wsSent[2].data = INPUT_PREFIX
  /\ terminalInputBuffer = <<KEY_B>>

\* A chunk with three terminators sends three INPUT commands.
C32_WitnessThree ==
  /\ last.op = "handleTerminalData"
  /\ last.data = CHUNK_LF_A_CR_CR
  /\ last.pre.ws.readyState = OPEN
  /\ Len(wsSent) = 3
  /\ wsSent[2].data = INPUT_PREFIX \o <<KEY_A>>
  /\ terminalInputBuffer = <<>>

====
